---- MODULE Spec2Model ----
(***************************************************************************)
(* Model of todo.py, a command-line to-do list manager.                    *)
(*                                                                         *)
(* One process invocation (main) parses one command, loads the storage     *)
(* file, applies the command to the in-memory list and, for the action     *)
(* commands, rewrites the storage file.  Only the file outlives the        *)
(* process.  Under Spec every command is one action, the whole of main,    *)
(* followed by the exit of the process.  Under SpecSave the write made by  *)
(* save_todos is split at the points where another process can read the   *)
(* file.  SpecNames explores longer lists with the commands that change    *)
(* labels and ids (add, repeat, remove, remove-all, update).               *)
(*                                                                         *)
(* Each invocation is given one option, as the parser's epilog asks; a     *)
(* command line that combines a list option with an action option runs     *)
(* the list option alone and is not explored.                              *)
(*                                                                         *)
(* Labels and command-line arguments are strings, as in the program.       *)
(* A timestamp is the second datetime.now() returns: strftime with the     *)
(* format "%Y-%m-%d %H:%M:%S" is an injection of the second, and the       *)
(* program only stores and prints the result.  datetime.now() is the wall  *)
(* clock, so each invocation may read any of the seconds in Times; one    *)
(* invocation is taken to run within one second.                           *)
(***************************************************************************)
EXTENDS Integers, Sequences, FiniteSets, TLC

VARIABLES
    file,          \* contents of DATA_FILE
    pc,            \* "idle": no process; "writing": inside save_todos; "done": main returned
    found,         \* what load_todos met: "absent", "corrupt", "json"; "none" before it runs
    todos,         \* the list `todos` of main
    cmd,           \* option selected on the command line
    args,          \* its raw argument strings
    stamp,         \* the second datetime.now() gave this process, 0 if it was not read
    action_taken,  \* main's action_taken
    exit_code,     \* exit status of the process
    saved,         \* whether main called save_todos
    max_issued,    \* history: greatest id add_todos has ever assigned
    seen           \* what a concurrent reader last read from DATA_FILE (SpecSave)

vars == <<file, pc, found, todos, cmd, args, stamp, action_taken, exit_code, saved,
          max_issued, seen>>

-----------------------------------------------------------------------------
(* Bounds: the longest list explored under Spec and SpecSave, and under    *)
(* SpecNames.  Ids are explored up to one past the longest list.           *)

MaxTodos == 2
MaxNames == 4

(* Inputs *)

Times == {1, 2}
TaskLists == {<<"a">>, <<"a", "a">>}
NewNames == {"a (1)"}
IdLists == {<<"0">>, <<"-1">>, <<"1">>, <<"2">>, <<"0", "1">>, <<"1", "0">>,
            <<"1", "2">>, <<"1", "1">>, <<"x">>, <<"1", "x">>}
UpdateIds == {"0", "1", "2", "x"}
RepeatArgs == {<<"1", "1">>, <<"1", "2">>, <<"2", "1">>, <<"0", "1">>, <<"1", "0">>,
               <<"x", "1">>, <<"1", "x">>}

(* Inputs of SpecNames: more labels, one second. *)
NameTimes == {1}
NameLists == {<<"a">>, <<"a", "a">>, <<"a (1)">>, <<"a", "a (1)">>}
NameNewNames == {"a", "a (2)"}
NameRepeatArgs == {<<"1", "1">>, <<"1", "2">>, <<"1", "3">>, <<"2", "1">>, <<"2", "2">>,
                   <<"0", "2">>}

-----------------------------------------------------------------------------
(* Values *)

Null == -1         \* None / JSON null in completed_at

Min(S) == CHOOSE x \in S : \A y \in S : x <= y
Max(S) == CHOOSE x \in S : \A y \in S : x >= y

Ids(ts) == {ts[i].id : i \in DOMAIN ts}
Tasks(ts) == {ts[i].task : i \in DOMAIN ts}

(* int(value): the decimal literals the inputs use; anything else raises   *)
(* ValueError (ok = FALSE).                                                *)
IntLits == <<"0", "1", "2", "3", "4", "5", "6">>
py_int(value) ==
    IF \E i \in DOMAIN IntLits : IntLits[i] = value
    THEN [ok |-> TRUE, val |-> (CHOOSE i \in DOMAIN IntLits : IntLits[i] = value) - 1]
    ELSE IF value = "-1" THEN [ok |-> TRUE, val |-> -1]
    ELSE [ok |-> FALSE, val |-> 0]

(* valid_positive_integer: ArgumentTypeError (ok = FALSE) for a value that *)
(* is no integer or is below 1.                                            *)
valid_positive_integer(value) ==
    LET p == py_int(value)
    IN  IF p.ok /\ p.val >= 1 THEN p ELSE [ok |-> FALSE, val |-> 0]

(* argparse with type=int, nargs="+": every value goes through int(); a    *)
(* ValueError makes the parser print an error and exit with status 2.      *)
argparse_ints(raw) ==
    [ok |-> \A i \in DOMAIN raw : py_int(raw[i]).ok,
     val |-> [i \in DOMAIN raw |-> py_int(raw[i]).val]]

-----------------------------------------------------------------------------
(* Persistence *)

Absent == [kind |-> "absent", data |-> <<>>]
Corrupt == [kind |-> "corrupt", data |-> <<>>]
JsonFile(ts) == [kind |-> "json", data |-> ts]
Partial(ts) == [kind |-> "partial", data |-> ts]

(* load_todos: the parsed list, or [] when the file is missing or is not   *)
(* a complete JSON document.                                               *)
load_todos(f) == IF f.kind = "json" THEN f.data ELSE <<>>

(* save_todos as seen by the invocation that calls it. *)
save_todos(ts) == JsonFile(ts)

-----------------------------------------------------------------------------
(* Task store operations *)

(* Index of the first record with the id, 0 for None. *)
find_todo_by_id(ts, todo_id) ==
    IF \E i \in DOMAIN ts : ts[i].id = todo_id
    THEN Min({i \in DOMAIN ts : ts[i].id = todo_id})
    ELSE 0

(* Variant: the id is the length of the list plus one. *)
next_id_by_len(ts) == Len(ts) + 1

next_id(ts) == IF ts = <<>> THEN 1 ELSE Max(Ids(ts)) + 1

Suffixed(original_task_name, counter) ==
    original_task_name \o " (" \o ToString(counter) \o ")"

(* Variant: the suffix is appended to the candidate that collided, not to  *)
(* the original name.                                                      *)
RECURSIVE resolve_name_chained(_, _, _, _)
resolve_name_chained(ts, original_task_name, task_name_to_add, counter) ==
    IF \E i \in DOMAIN ts : ts[i].task = task_name_to_add
    THEN resolve_name_chained(ts, original_task_name,
                              Suffixed(task_name_to_add, counter), counter + 1)
    ELSE task_name_to_add

RECURSIVE resolve_name(_, _, _, _)
resolve_name(ts, original_task_name, task_name_to_add, counter) ==
    IF \E i \in DOMAIN ts : ts[i].task = task_name_to_add
    THEN resolve_name(ts, original_task_name,
                      Suffixed(original_task_name, counter), counter + 1)
    ELSE task_name_to_add

new_todo(ts, new_task_name, now) ==
    [id |-> next_id(ts),
     task |-> resolve_name(ts, new_task_name, new_task_name, 1),
     done |-> FALSE,
     created_at |-> now,
     completed_at |-> Null]

(* Variant: every label of the call is resolved against the list as it was *)
(* when the call began.                                                    *)
add_todos_batch(ts, new_tasks, now) ==
    ts \o [k \in DOMAIN new_tasks |-> new_todo(ts, new_tasks[k], now)]

RECURSIVE add_todos(_, _, _)
add_todos(ts, new_tasks, now) ==
    IF new_tasks = <<>> THEN ts
    ELSE add_todos(Append(ts, new_todo(ts, Head(new_tasks), now)),
                   Tail(new_tasks), now)

(* Variant: the copies keep the label of the original. *)
repeat_task_same_label(ts, todo_id, repeat_count, now) ==
    LET i == find_todo_by_id(ts, todo_id)
    IN  IF i = 0 THEN [todos |-> ts, ret |-> FALSE]
        ELSE [todos |-> ts \o [k \in 1..repeat_count |->
                                  [id |-> next_id(ts) + k - 1, task |-> ts[i].task,
                                   done |-> FALSE, created_at |-> now,
                                   completed_at |-> Null]],
              ret |-> TRUE]

repeat_task(ts, todo_id, repeat_count, now) ==
    LET i == find_todo_by_id(ts, todo_id)
    IN  IF i = 0 THEN [todos |-> ts, ret |-> FALSE]
        ELSE [todos |-> add_todos(ts, [k \in 1..repeat_count |-> ts[i].task], now),
              ret |-> TRUE]

(* list.remove(x): deletes the first element equal to x. *)
list_remove(ts, x) ==
    LET j == Min({k \in DOMAIN ts : ts[k] = x})
    IN  SubSeq(ts, 1, j - 1) \o SubSeq(ts, j + 1, Len(ts))

remove_todo(ts, todo_id) ==
    LET i == find_todo_by_id(ts, todo_id)
    IN  IF i # 0 THEN [todos |-> list_remove(ts, ts[i]), ret |-> TRUE]
        ELSE [todos |-> ts, ret |-> FALSE]

remove_all_todos(ts) ==
    IF ts = <<>> THEN [todos |-> ts, ret |-> FALSE]
    ELSE [todos |-> <<>>, ret |-> TRUE]

(* Variant: a record already completed is stamped again. *)
complete_todo_restamp(ts, todo_id, now) ==
    LET i == find_todo_by_id(ts, todo_id)
    IN  IF i # 0
        THEN [todos |-> [ts EXCEPT ![i].done = TRUE, ![i].completed_at = now],
              ret |-> TRUE]
        ELSE [todos |-> ts, ret |-> FALSE]

complete_todo(ts, todo_id, now) ==
    LET i == find_todo_by_id(ts, todo_id)
    IN  IF i # 0
        THEN [todos |-> IF ~ts[i].done
                        THEN [ts EXCEPT ![i].done = TRUE, ![i].completed_at = now]
                        ELSE ts,
              ret |-> TRUE]
        ELSE [todos |-> ts, ret |-> FALSE]

complete_all_todos(ts, now) ==
    IF ts = <<>> THEN [todos |-> ts, ret |-> FALSE]
    ELSE [todos |-> [i \in DOMAIN ts |->
                        IF ~ts[i].done
                        THEN [ts[i] EXCEPT !.done = TRUE, !.completed_at = now]
                        ELSE ts[i]],
          ret |-> TRUE]

(* Variant: completed_at is left as it was. *)
pending_todo_keeps_stamp(ts, todo_id) ==
    LET i == find_todo_by_id(ts, todo_id)
    IN  IF i # 0
        THEN [todos |-> IF ts[i].done THEN [ts EXCEPT ![i].done = FALSE] ELSE ts,
              ret |-> TRUE]
        ELSE [todos |-> ts, ret |-> FALSE]

pending_todo(ts, todo_id) ==
    LET i == find_todo_by_id(ts, todo_id)
    IN  IF i # 0
        THEN [todos |-> IF ts[i].done
                        THEN [ts EXCEPT ![i].done = FALSE, ![i].completed_at = Null]
                        ELSE ts,
              ret |-> TRUE]
        ELSE [todos |-> ts, ret |-> FALSE]

pending_all_todos(ts) ==
    IF ts = <<>> THEN [todos |-> ts, ret |-> FALSE]
    ELSE [todos |-> [i \in DOMAIN ts |->
                        [ts[i] EXCEPT !.done = FALSE, !.completed_at = Null]],
          ret |-> TRUE]

update_todo(ts, todo_id, new_name) ==
    LET i == find_todo_by_id(ts, todo_id)
    IN  IF i # 0 THEN [todos |-> [ts EXCEPT ![i].task = new_name], ret |-> TRUE]
        ELSE [todos |-> ts, ret |-> FALSE]

-----------------------------------------------------------------------------
(* main *)

id_op(c, ts, todo_id, now) ==
    CASE c = "remove" -> remove_todo(ts, todo_id)
      [] c = "complete" -> complete_todo(ts, todo_id, now)
      [] c = "pending" -> pending_todo(ts, todo_id)

(* Variant: the loop stops at the first id that is not found. *)
RECURSIVE for_each_id_abort(_, _, _, _, _)
for_each_id_abort(c, ts, ids, now, taken) ==
    IF ids = <<>> THEN [todos |-> ts, ret |-> taken]
    ELSE LET r == id_op(c, ts, Head(ids), now)
         IN  IF ~r.ret THEN [todos |-> ts, ret |-> taken]
             ELSE for_each_id_abort(c, r.todos, Tail(ids), now, TRUE)

(* for todo_id in ids: action_taken = op(todos, todo_id) or action_taken *)
RECURSIVE for_each_id(_, _, _, _, _)
for_each_id(c, ts, ids, now, taken) ==
    IF ids = <<>> THEN [todos |-> ts, ret |-> taken]
    ELSE LET r == id_op(c, ts, Head(ids), now)
         IN  for_each_id(c, r.todos, Tail(ids), now, r.ret \/ taken)


(* Variant: save_todos is called only when the operation returned true. *)
Ran_if_taken(f, r) ==
    [found |-> f.kind, todos |-> r.todos, ret |-> r.ret, exit |-> 0, save |-> r.ret]

(* What one run of main computes: what load_todos met, the list main ends *)
(* with, action_taken (ret), the exit status, whether save_todos ran.      *)
(* The action commands call save_todos whatever the operation returned.    *)
Ran(f, r) ==
    [found |-> f.kind, todos |-> r.todos, ret |-> r.ret, exit |-> 0, save |-> TRUE]
NotSaved(f, status) ==
    [found |-> f.kind, todos |-> load_todos(f), ret |-> FALSE, exit |-> status,
     save |-> FALSE]
(* parse_args ends the process before load_todos runs. *)
ParseError == [found |-> "none", todos |-> <<>>, ret |-> FALSE, exit |-> 2, save |-> FALSE]

ListCmds == {"list", "list_completed", "list_pending", "search"}
IdCmds == {"remove", "complete", "pending"}
ActionCmds == {"add", "remove", "remove_all", "complete", "complete_all", "pending",
               "pending_all", "update", "repeat"}

(* list_todos only prints. *)
RunList(f) == NotSaved(f, 0)

(* No option given: parser.print_help(). *)
RunHelp(f) == NotSaved(f, 0)

RunAdd(f, a, t) == Ran(f, [todos |-> add_todos(load_todos(f), a, t), ret |-> TRUE])

RunIds(f, c, a, t) ==
    LET p == argparse_ints(a)
    IN  IF ~p.ok THEN ParseError
        ELSE Ran(f, for_each_id(c, load_todos(f), p.val, t, FALSE))

RunRemoveAll(f) == Ran(f, remove_all_todos(load_todos(f)))
RunCompleteAll(f, t) == Ran(f, complete_all_todos(load_todos(f), t))
RunPendingAll(f) == Ran(f, pending_all_todos(load_todos(f)))

RunUpdate(f, a) ==
    LET p == valid_positive_integer(a[1])
    IN  IF ~p.ok THEN NotSaved(f, 1)
        ELSE Ran(f, update_todo(load_todos(f), p.val, a[2]))

RunRepeat(f, a, t) ==
    LET p == valid_positive_integer(a[1])
        n == valid_positive_integer(a[2])
    IN  IF ~p.ok \/ ~n.ok THEN NotSaved(f, 1)
        ELSE Ran(f, repeat_task(load_todos(f), p.val, n.val, t))

Fits(ts, cap) == Len(ts) <= cap /\ \A i \in Ids(ts) : i <= cap + 1

-----------------------------------------------------------------------------
(* Spec: one action per command, then the process exits *)

Init ==
    /\ file \in {Absent, Corrupt}
    /\ pc = "idle"
    /\ found = "none"
    /\ todos = <<>>
    /\ cmd = "none"
    /\ args = <<>>
    /\ stamp = 0
    /\ action_taken = FALSE
    /\ exit_code = 0
    /\ saved = FALSE
    /\ max_issued = 0
    /\ seen = Absent

(* datetime.now() is read when add_todos appends a record, when            *)
(* complete_todo completes one, and by complete_all_todos on a list that   *)
(* is not empty.                                                           *)
ReadsClock(c, f, out) ==
    \/ c \in {"add", "repeat", "complete"} /\ out.todos # load_todos(f)
    \/ c = "complete_all" /\ load_todos(f) # <<>>

Locals(c, a, t, out) ==
    /\ cmd' = c
    /\ args' = a
    /\ stamp' = IF ReadsClock(c, file, out) THEN t ELSE 0
    /\ found' = out.found
    /\ todos' = out.todos
    /\ action_taken' = out.ret
    /\ exit_code' = out.exit
    /\ saved' = out.save
    /\ max_issued' = Max({max_issued} \cup Ids(out.todos))

Invoke(c, a, t, out) ==
    /\ pc = "idle"
    /\ pc' = "done"
    /\ Locals(c, a, t, out)
    /\ file' = IF out.save THEN save_todos(out.todos) ELSE file
    /\ UNCHANGED seen

Exit ==
    /\ pc = "done"
    /\ pc' = "idle"
    /\ found' = "none"
    /\ todos' = <<>>
    /\ cmd' = "none"
    /\ args' = <<>>
    /\ stamp' = 0
    /\ action_taken' = FALSE
    /\ exit_code' = 0
    /\ saved' = FALSE
    /\ UNCHANGED <<file, max_issued, seen>>

List == \E c \in ListCmds : Invoke(c, <<>>, 0, RunList(file))

Help == Invoke("help", <<>>, 0, RunHelp(file))

AddOp(lists, times, cap) ==
    /\ pc = "idle"
    /\ \E a \in lists, t \in times :
        LET out == RunAdd(file, a, t)
        IN  Fits(out.todos, cap) /\ Invoke("add", a, t, out)

RepeatOp(arglists, times, cap) ==
    /\ pc = "idle"
    /\ \E a \in arglists, t \in times :
        LET out == RunRepeat(file, a, t)
        IN  Fits(out.todos, cap) /\ Invoke("repeat", a, t, out)

UpdateOp(ids, names) ==
    \E i \in ids, n \in names : Invoke("update", <<i, n>>, 0, RunUpdate(file, <<i, n>>))

Add == AddOp(TaskLists, Times, MaxTodos)

Remove == \E a \in IdLists : Invoke("remove", a, 0, RunIds(file, "remove", a, 0))

RemoveAll == Invoke("remove_all", <<>>, 0, RunRemoveAll(file))

Complete ==
    \E a \in IdLists, t \in Times :
        Invoke("complete", a, t, RunIds(file, "complete", a, t))

CompleteAll ==
    \E t \in Times : Invoke("complete_all", <<>>, t, RunCompleteAll(file, t))

Pending == \E a \in IdLists : Invoke("pending", a, 0, RunIds(file, "pending", a, 0))

PendingAll == Invoke("pending_all", <<>>, 0, RunPendingAll(file))

Update == UpdateOp(UpdateIds, NewNames)

Repeat == RepeatOp(RepeatArgs, Times, MaxTodos)

Next ==
    \/ List
    \/ Add
    \/ Remove
    \/ RemoveAll
    \/ Complete
    \/ CompleteAll
    \/ Pending
    \/ PendingAll
    \/ Update
    \/ Repeat
    \/ Help
    \/ Exit

Spec == Init /\ [][Next]_vars

-----------------------------------------------------------------------------
(* SpecNames: the commands that change labels and ids, on longer lists *)

AddNames == AddOp(NameLists, NameTimes, MaxNames)
RepeatNames == RepeatOp(NameRepeatArgs, NameTimes, MaxNames)
UpdateNames == UpdateOp(UpdateIds, NameNewNames)

NextNames ==
    \/ AddNames
    \/ RepeatNames
    \/ UpdateNames
    \/ Remove
    \/ RemoveAll
    \/ Exit

SpecNames == Init /\ [][NextNames]_vars

-----------------------------------------------------------------------------
(* SpecSave: save_todos step by step, with a second process reading        *)

(* with open(DATA_FILE, "w"): the file is truncated to zero bytes before   *)
(* json.dump writes anything.                                              *)
SaveOpen ==
    /\ pc = "idle"
    /\ \E t \in Times, c \in {"add", "complete_all", "remove_all"}, a \in TaskLists :
        LET out == CASE c = "add" -> RunAdd(file, a, t)
                     [] c = "complete_all" -> RunCompleteAll(file, t)
                     [] c = "remove_all" -> RunRemoveAll(file)
        IN  /\ Fits(out.todos, MaxTodos)
            /\ Locals(c, IF c = "add" THEN a ELSE <<>>, t, out)
    /\ pc' = "writing"
    /\ file' = Partial(<<>>)
    /\ UNCHANGED seen

(* json.dump writes the document piece by piece; what has reached the file *)
(* so far is a prefix of it.                                               *)
SaveWrite ==
    /\ pc = "writing"
    /\ \E k \in (Len(file.data) + 1)..Len(todos) : file' = Partial(SubSeq(todos, 1, k))
    /\ UNCHANGED <<pc, found, todos, cmd, args, stamp, action_taken, exit_code, saved,
                   max_issued, seen>>

(* Leaving the with block flushes the rest and closes the file. *)
SaveClose ==
    /\ pc = "writing"
    /\ pc' = "done"
    /\ file' = JsonFile(todos)
    /\ UNCHANGED <<found, todos, cmd, args, stamp, action_taken, exit_code, saved,
                   max_issued, seen>>

(* A second invocation opens and reads DATA_FILE (load_todos). *)
ReadFile ==
    /\ seen' = file
    /\ UNCHANGED <<file, pc, found, todos, cmd, args, stamp, action_taken, exit_code,
                   saved, max_issued>>

NextSave ==
    \/ SaveOpen
    \/ SaveWrite
    \/ SaveClose
    \/ ReadFile
    \/ Exit

SpecSave == Init /\ [][NextSave]_vars

-----------------------------------------------------------------------------
(* Properties *)

(* A step in which main runs from start to end. *)
Step == pc = "idle" /\ pc' = "done"

Label(name, n) == name \o " (" \o ToString(n) \o ")"
IdOf(value) == py_int(value).val
IdsUnique(ts) == \A i, j \in DOMAIN ts : i # j => ts[i].id # ts[j].id
StampedIffDone(ts) == \A i \in DOMAIN ts : (ts[i].completed_at # Null) <=> ts[i].done
MaxIdIn(ts) == IF ts = <<>> THEN 0 ELSE Max(Ids(ts))
Extends(pre, post, n) == Len(post) = Len(pre) + n /\ SubSeq(post, 1, Len(pre)) = pre

(* C1: no two records of the list, in memory or in the file, have the same *)
(* id, after any sequence of commands from an empty store.                 *)
C1_IdsUnique == IdsUnique(todos) /\ IdsUnique(load_todos(file))

(* An add onto a list whose first record was removed earlier. *)
C1_Witness ==
    /\ pc = "done" /\ cmd = "add"
    /\ Len(todos) = 2 /\ todos[1].id = 2 /\ todos[2].id = 3

(* C2 as stated: the ids add_todos assigns are greater than every id it    *)
(* has ever assigned, so the id of a removed record is never assigned      *)
(* again.                                                                  *)
C2_NeverReused ==
    [][(Step /\ cmd' \in {"add", "repeat"}) =>
        \A k \in (Len(load_todos(file)) + 1)..Len(todos') :
            todos'[k].id > max_issued]_vars

(* C2 amended: each id add_todos assigns is one more than the greatest id  *)
(* in the list at the moment the record is appended (1 on an empty list),  *)
(* so it is greater than every id then in the list, and the ids of one     *)
(* call are strictly increasing.                                           *)
C2_NextIdAboveStore ==
    [][(Step /\ cmd' \in {"add", "repeat"} /\ exit_code' = 0) =>
        LET pre == load_todos(file)
            post == todos'
        IN  /\ Len(post) >= Len(pre)
            /\ SubSeq(post, 1, Len(pre)) = pre
            /\ \A k \in (Len(pre) + 1)..Len(post) :
                /\ post[k].id = MaxIdIn(SubSeq(post, 1, k - 1)) + 1
                /\ \A j \in 1..(k - 1) : post[j].id < post[k].id]_vars

(* An add that assigned an id below one assigned before. *)
C2_Witness ==
    /\ pc = "done" /\ cmd = "add"
    /\ todos # <<>> /\ todos[Len(todos)].id < max_issued

(* C3: in every record, in memory or in the file, completed_at is set      *)
(* exactly when done is true.                                              *)
C3_CompletedAtIffDone == StampedIffDone(todos) /\ StampedIffDone(load_todos(file))

(* A pending command on record 1 beside a completed record. *)
C3_Witness ==
    /\ pc = "done" /\ cmd = "pending" /\ args = <<"1">> /\ action_taken
    /\ Len(todos) = 2 /\ todos[1].id = 1 /\ ~todos[1].done
    /\ todos[2].done /\ todos[2].completed_at \in Times

(* C4: add_todos takes the labels in order; a label not in the list is     *)
(* stored as given, a label in the list is stored with " (n)" for the      *)
(* least n >= 1 whose result is not in the list; the records appended      *)
(* earlier in the call count for the later labels and ids, so each new     *)
(* label differs from every label in the list when it is appended.         *)
C4_AddResolvesLabels ==
    [][(Step /\ cmd' = "add") =>
        LET pre == load_todos(file)
            post == todos'
        IN  /\ Extends(pre, post, Len(args'))
            /\ \A k \in DOMAIN args' :
                LET cur == SubSeq(post, 1, Len(pre) + k - 1)
                    rec == post[Len(pre) + k]
                IN  /\ rec.task \notin Tasks(cur)
                    /\ args'[k] \notin Tasks(cur) => rec.task = args'[k]
                    /\ args'[k] \in Tasks(cur) =>
                        \E n \in 1..(Len(cur) + 1) :
                            /\ rec.task = Label(args'[k], n)
                            /\ \A m \in 1..(n - 1) : Label(args'[k], m) \in Tasks(cur)
                    /\ rec.id = MaxIdIn(cur) + 1]_vars

(* An add of "a" that had to go to the second suffix. *)
C4_Witness ==
    /\ pc = "done" /\ cmd = "add" /\ args = <<"a">>
    /\ Len(todos) = 3 /\ todos[3].task = "a (2)"
    /\ {"a", "a (1)"} \subseteq Tasks(SubSeq(todos, 1, 2))

(* C5: remove, complete, pending, update and repeat with an id no record   *)
(* has return false and leave the list as loaded; in a request with        *)
(* several ids every id that is found is acted on, whatever came before    *)
(* it.                                                                     *)
C5_NotFoundIsNoOp ==
    [][(Step /\ exit_code' = 0) =>
        LET pre == load_todos(file)
        IN  /\ ( /\ cmd' \in IdCmds \cup {"update", "repeat"}
                 /\ cmd' \in IdCmds => Len(args') = 1
                 /\ IdOf(args'[1]) \notin Ids(pre) )
                => (~action_taken' /\ todos' = pre)
            /\ cmd' \in IdCmds =>
                \A k \in DOMAIN args' :
                    IdOf(args'[k]) \in Ids(pre) =>
                        /\ action_taken'
                        /\ cmd' = "remove" => IdOf(args'[k]) \notin Ids(todos')
                        /\ cmd' = "complete" =>
                            \E i \in DOMAIN todos' :
                                todos'[i].id = IdOf(args'[k]) /\ todos'[i].done
                        /\ cmd' = "pending" =>
                            \E i \in DOMAIN todos' :
                                todos'[i].id = IdOf(args'[k]) /\ ~todos'[i].done]_vars

(* complete 0 1: id 0 is not found, record 1 is completed all the same. *)
C5_Witness ==
    /\ pc = "done" /\ cmd = "complete" /\ args = <<"0", "1">> /\ action_taken
    /\ stamp \in Times
    /\ \E i \in DOMAIN todos : todos[i].id = 1 /\ todos[i].completed_at = stamp

(* C6 as stated: a process that reads DATA_FILE while save_todos runs sees *)
(* the old or the new contents, never an empty or partly written file.     *)
C6_ReaderSeesWholeFile == seen.kind # "partial"

(* C7 as stated: remove, complete, pending, update and repeat given an id  *)
(* or count that is no integer or is below 1 end with a non-zero status    *)
(* and do not write the file.                                              *)
BadNumber(value) == ~py_int(value).ok \/ py_int(value).val < 1
C7_BadNumberRejected ==
    ( /\ pc = "done"
      /\ \/ cmd \in IdCmds /\ \E k \in DOMAIN args : BadNumber(args[k])
         \/ cmd = "update" /\ BadNumber(args[1])
         \/ cmd = "repeat" /\ (BadNumber(args[1]) \/ BadNumber(args[2])) )
    => (exit_code # 0 /\ ~saved)

(* C8: complete on a pending record sets done and stamps completed_at;     *)
(* on a completed record it changes nothing; pending on a completed        *)
(* record clears both; on a pending record it changes nothing.  No other   *)
(* field and no other record changes, so complete then pending on a        *)
(* pending record gives the list back.                                     *)
C8_CompletionStateMachine ==
    [][Step =>
        LET pre == load_todos(file)
        IN  /\ ( /\ cmd' \in {"complete", "pending"}
                 /\ exit_code' = 0 /\ Len(args') = 1 ) =>
                \A i \in DOMAIN pre :
                    pre[i].id = IdOf(args'[1]) =>
                        /\ (cmd' = "complete" /\ ~pre[i].done) =>
                            /\ stamp' \in Times
                            /\ todos' = [pre EXCEPT ![i].done = TRUE,
                                                    ![i].completed_at = stamp']
                        /\ (cmd' = "complete" /\ pre[i].done) => todos' = pre
                        /\ (cmd' = "pending" /\ pre[i].done) =>
                            todos' = [pre EXCEPT ![i].done = FALSE,
                                                 ![i].completed_at = Null]
                        /\ (cmd' = "pending" /\ ~pre[i].done) => todos' = pre
            /\ \A i \in DOMAIN pre, t \in Times :
                ~pre[i].done =>
                    pending_todo(complete_todo(pre, pre[i].id, t).todos,
                                 pre[i].id).todos = pre]_vars

(* complete 1 on a record completed before: the clock is not read and the  *)
(* earlier completed_at stays.                                             *)
C8_Witness ==
    /\ pc = "done" /\ cmd = "complete" /\ args = <<"1">> /\ action_taken
    /\ stamp = 0
    /\ \E i \in DOMAIN todos :
        todos[i].id = 1 /\ todos[i].done /\ todos[i].completed_at \in Times

(* C9: repeat on a record labelled L appends exactly count pending records *)
(* after the list as loaded and returns true; the new labels differ from   *)
(* each other and from every label loaded; when none of "L (1)" ..         *)
(* "L (count)" was in the list they are "L (1)", .., "L (count)" in order. *)
C9_RepeatAppendsCopies ==
    [][(Step /\ cmd' = "repeat" /\ exit_code' = 0) =>
        LET pre == load_todos(file)
            post == todos'
            count == IdOf(args'[2])
        IN  \A i \in DOMAIN pre :
                pre[i].id = IdOf(args'[1]) =>
                    /\ action_taken'
                    /\ Extends(pre, post, count)
                    /\ \A k \in 1..count :
                        /\ ~post[Len(pre) + k].done
                        /\ post[Len(pre) + k].completed_at = Null
                        /\ post[Len(pre) + k].task \notin Tasks(pre)
                        /\ \A j \in 1..(k - 1) :
                            post[Len(pre) + j].task # post[Len(pre) + k].task
                    /\ (\A m \in 1..count : Label(pre[i].task, m) \notin Tasks(pre)) =>
                        \A k \in 1..count :
                            post[Len(pre) + k].task = Label(pre[i].task, k)]_vars

(* repeat 1 3 on the single record "a". *)
C9_Witness ==
    /\ pc = "done" /\ cmd = "repeat" /\ args = <<"1", "3">> /\ action_taken
    /\ Len(todos) = 4
    /\ [k \in 1..4 |-> todos[k].task] = <<"a", "a (1)", "a (2)", "a (3)">>

(* C10: every action command that gets past its argument checks rewrites   *)
(* the file with the list in memory, whatever the operation returned; the  *)
(* list and search commands leave the file alone.  So on a file that does  *)
(* not parse, every action command but add returns false and leaves the    *)
(* file holding the empty list.                                            *)
C10_ActionsAlwaysSave ==
    [][Step =>
        /\ (cmd' \in ActionCmds /\ exit_code' = 0) =>
            (saved' /\ file' = JsonFile(todos'))
        /\ cmd' \in ListCmds => (~saved' /\ file' = file)
        /\ (file.kind = "corrupt" /\ cmd' \in ActionCmds \ {"add"} /\ exit_code' = 0) =>
            (~action_taken' /\ file' = JsonFile(<<>>))]_vars

(* remove of an id on a file that did not parse: nothing removed, the file *)
(* now holds the empty list.                                               *)
C10_Witness ==
    /\ pc = "done" /\ found = "corrupt" /\ cmd = "remove" /\ exit_code = 0
    /\ ~action_taken /\ saved /\ file = JsonFile(<<>>)

====
